---- MODULE Spec2Model ----
(***************************************************************************)
(* Model of src/Backend.py, the Bioinformatics Processing API:             *)
(* calculate_gc_content, detect_compression, detect_file_format,           *)
(* get_text_handle, process_fasta_stream, process_fastq_stream and the     *)
(* three endpoints process_sequences_universal, get_sequence_stats and     *)
(* filter_fastq.                                                           *)
(*                                                                         *)
(* Python strings are modelled as sequences of one-character strings.      *)
(* Percentages (GC content, rounded by round(x, 2)) are integers counting  *)
(* hundredths of a percent: 50.0 is 5000, 33.33 is 3333.                   *)
(* A call either returns a value, [ok |-> TRUE, value |-> v], or raises,   *)
(* [ok |-> FALSE, exc |-> <Python exception class>].                       *)
(***************************************************************************)
EXTENDS Integers, Sequences, FiniteSets, TLC

VARIABLES pc, endpoint, filename, upload, filter_ids,
          compression, file_format, content, handle, wanted_ids,
          sequences, stats, record, raised, response, call, ret

vars == <<pc, endpoint, filename, upload, filter_ids,
          compression, file_format, content, handle, wanted_ids,
          sequences, stats, record, raised, response, call, ret>>

\* The value of a local that is not bound yet.
None == "None"

\* A local of a handler that no statement has bound yet; a request that has
\* not been answered has no response bound either.
Unbound == [unbound |-> TRUE]

\* An Optional[...] argument: Python's None, or a value.
Nothing == [some |-> FALSE]

Some(v) == [some |-> TRUE, val |-> v]

Return(v) == [ok |-> TRUE, value |-> v]

Raise(e) == [ok |-> FALSE, exc |-> e]

(***************************************************************************)
(* Bounds of the model.                                                    *)
(***************************************************************************)
\* Longest residue sequence drawn for calculate_gc_content.
MaxLen == 3

\* Most extensions stacked on a filename stem.
MaxExts == 3

\* Most records in a record stream.
MaxRecs == 2

\* Most characters in a filter_ids query string.
MaxFilterLen == 3

\* Most records folded by one call of the statistics loop.
MaxStatsRecs == 3

(***************************************************************************)
(* str.upper / str.lower / str.endswith / str.strip / str.split            *)
(***************************************************************************)
CasePairs ==
  { <<"A", "a">>, <<"B", "b">>, <<"C", "c">>, <<"E", "e">>, <<"F", "f">>,
    <<"G", "g">>, <<"I", "i">>, <<"K", "k">>, <<"L", "l">>, <<"M", "m">>,
    <<"N", "n">>, <<"P", "p">>, <<"Q", "q">>, <<"S", "s">>, <<"T", "t">>,
    <<"X", "x">>, <<"Z", "z">> }

UpperChar(c) ==
  IF \E p \in CasePairs : p[2] = c
    THEN (CHOOSE p \in CasePairs : p[2] = c)[1]
    ELSE c

LowerChar(c) ==
  IF \E p \in CasePairs : p[1] = c
    THEN (CHOOSE p \in CasePairs : p[1] = c)[2]
    ELSE c

Upper(s) == [i \in 1..Len(s) |-> UpperChar(s[i])]

Lower(s) == [i \in 1..Len(s) |-> LowerChar(s[i])]

EndsWith(s, suffix) ==
  /\ Len(s) >= Len(suffix)
  /\ SubSeq(s, Len(s) - Len(suffix) + 1, Len(s)) = suffix

\* str.endswith with a tuple of suffixes.
EndsWithAny(s, suffixes) == \E i \in 1..Len(suffixes) : EndsWith(s, suffixes[i])

\* name[:-len(ext)]
DropSuffix(s, suffix) == SubSeq(s, 1, Len(s) - Len(suffix))

Whitespace == {" "}

(***************************************************************************)
(* calculate_gc_content                                                    *)
(***************************************************************************)
\* round(num / den, 2) in hundredths, den > 0: the nearest hundredth, a tie
\* going to the even one.
Round2(num, den) ==
  LET scaled == num * 100
      q == scaled \div den
      r == scaled % den
  IN  IF 2 * r < den THEN q
      ELSE IF 2 * r > den THEN q + 1
      ELSE IF q % 2 = 0 THEN q ELSE q + 1

\* The loop over the upper-cased sequence: the number of G/C, and of A/T/G/C.
RECURSIVE CountBases(_, _, _, _)
CountBases(seq, i, gc, canonical) ==
  IF i > Len(seq) THEN [gc |-> gc, canonical |-> canonical]
  ELSE IF seq[i] \in {"G", "C"} THEN CountBases(seq, i + 1, gc + 1, canonical + 1)
  ELSE IF seq[i] \in {"A", "T"} THEN CountBases(seq, i + 1, gc, canonical + 1)
  ELSE CountBases(seq, i + 1, gc, canonical)

\* calculate_gc_content without seq.upper(): lower-case residues are not counted.
calculate_gc_content_no_upper(seq0, mode) ==
  LET n == CountBases(seq0, 1, 0, 0)
      denominator == IF mode = "raw" THEN Len(seq0) ELSE n.canonical
  IN  IF mode \notin {"raw", "canonical"} THEN Raise("ValueError")
      ELSE IF denominator = 0 THEN Return(0)
      ELSE Return(Round2(n.gc * 100, denominator))

\* calculate_gc_content whose G/C branch forgets "canonical += 1".
calculate_gc_content_gc_not_canonical(seq0, mode) ==
  LET seq == Upper(seq0)
      n == CountBases(seq, 1, 0, 0)
      denominator == IF mode = "raw" THEN Len(seq) ELSE n.canonical - n.gc
  IN  IF mode \notin {"raw", "canonical"} THEN Raise("ValueError")
      ELSE IF denominator = 0 THEN Return(0)
      ELSE Return(Round2(n.gc * 100, denominator))

calculate_gc_content(seq0, mode) ==
  LET seq == Upper(seq0)
      n == CountBases(seq, 1, 0, 0)
      denominator == IF mode = "raw" THEN Len(seq) ELSE n.canonical
  IN  IF mode \notin {"raw", "canonical"} THEN Raise("ValueError")
      ELSE IF denominator = 0 THEN Return(0)
      ELSE Return(Round2(n.gc * 100, denominator))

(***************************************************************************)
(* detect_compression, detect_file_format                                  *)
(***************************************************************************)
GzipExts == << <<".", "g", "z">>, <<".", "g", "z", "i", "p">> >>

Bzip2Exts == << <<".", "b", "z", "2">>, <<".", "b", "z", "i", "p", "2">> >>

\* ['.gz', '.gzip', '.bz2', '.bzip2'], in the order the loop visits them.
CompressionExts == GzipExts \o Bzip2Exts

FastaExts == << <<".", "f", "a">>, <<".", "f", "a", "s", "t", "a">>,
                <<".", "f", "n", "a">> >>

FastqExts == << <<".", "f", "q">>, <<".", "f", "a", "s", "t", "q">> >>

GenbankExts == << <<".", "g", "b">>, <<".", "g", "b", "k">>,
                  <<".", "g", "e", "n", "b", "a", "n", "k">> >>

EmblExts == << <<".", "e", "m", "b", "l">> >>

detect_compression(fname) ==
  LET filename_lower == Lower(fname)
  IN  IF EndsWithAny(filename_lower, GzipExts) THEN "gzip"
      ELSE IF EndsWithAny(filename_lower, Bzip2Exts) THEN "bzip2"
      ELSE "none"

\* for ext in [...]: if name.endswith(ext): name = name[:-len(ext)]
RECURSIVE StripCompressionExts(_, _)
StripCompressionExts(name, i) ==
  IF i > Len(CompressionExts) THEN name
  ELSE IF EndsWith(name, CompressionExts[i])
    THEN StripCompressionExts(DropSuffix(name, CompressionExts[i]), i + 1)
    ELSE StripCompressionExts(name, i + 1)

\* The format of a name whose compression extensions are removed.
FormatOfSuffix(name) ==
  IF EndsWithAny(name, FastaExts) THEN Return("fasta")
  ELSE IF EndsWithAny(name, FastqExts) THEN Return("fastq")
  ELSE IF EndsWithAny(name, GenbankExts) THEN Return("genbank")
  ELSE IF EndsWithAny(name, EmblExts) THEN Return("embl")
  ELSE Raise("ValueError")

\* The lowered name and the stripped name are each computed once.
detect_file_format(fname) ==
  LET stripped == {StripCompressionExts(name, 1) : name \in {Lower(fname)}}
  IN  CHOOSE fmt \in {FormatOfSuffix(name) : name \in stripped} : TRUE

(***************************************************************************)
(* get_text_handle and the reading of a handle                             *)
(*                                                                         *)
(* The uploaded bytes are described by what the library calls make of      *)
(* them:                                                                   *)
(*   inflate  "ok", "corrupt" or "truncated": what the decompressor the    *)
(*            detected compression selects makes of them (not used for     *)
(*            'none'); zero bytes are a truncated bzip2 stream;            *)
(*   utf8     whether the bytes reaching the decoder are valid UTF-8;      *)
(*   lexer    "ok" or "malformed": whether the text follows the grammar    *)
(*            of the format to the end;                                    *)
(*   records  the records the parser yields (before the malformation,      *)
(*            when there is one), each [title, seq, qual].                 *)
(***************************************************************************)
get_text_handle(bytes, comp) ==
  IF comp = "gzip" THEN Return([kind |-> "gzip", content |-> bytes])
  ELSE IF comp = "bzip2" THEN Return([kind |-> "bz2", content |-> bytes])
  ELSE IF bytes.utf8
    THEN Return([kind |-> "StringIO", content |-> bytes])
    ELSE Raise("UnicodeDecodeError")

\* ReadHandle taking a compressed stream with no record for a truncated one.
ReadHandle_empty_is_eof(h) ==
  IF h.kind = "StringIO" THEN Return(h.content)
  ELSE IF h.content.inflate = "corrupt" THEN Raise("OSError")
  ELSE IF h.content.inflate = "truncated" \/ h.content.records = <<>>
    THEN Raise("EOFError")
  ELSE IF ~h.content.utf8 THEN Raise("UnicodeDecodeError")
  ELSE Return(h.content)

\* Reading the text of a handle: gzip.open / bz2.open in 'rt' mode inflate and
\* decode only now; gzip.BadGzipFile and bz2's "Invalid data stream" are
\* OSError, a stream that ends early is EOFError.
ReadHandle(h) ==
  IF h.kind = "StringIO" THEN Return(h.content)
  ELSE IF h.content.inflate = "corrupt" THEN Raise("OSError")
  ELSE IF h.content.inflate = "truncated" THEN Raise("EOFError")
  ELSE IF ~h.content.utf8 THEN Raise("UnicodeDecodeError")
  ELSE Return(h.content)

(***************************************************************************)
(* process_fastq_stream                                                    *)
(***************************************************************************)
\* The offset of the Phred+33 quality encoding.
PhredOffset == 33

\* ord(q) of the quality characters the model draws.
Ord(q) ==
  CASE q = "!" -> 33
    [] q = "#" -> 35
    [] q = "5" -> 53
    [] q = "I" -> 73

\* title.split(None, 1)[0]: the first whitespace-delimited token; indexing the
\* empty list that split returns for a title with no token raises IndexError.
RECURSIVE SkipWhitespace(_, _)
SkipWhitespace(s, i) ==
  IF i <= Len(s) /\ s[i] \in Whitespace THEN SkipWhitespace(s, i + 1) ELSE i

RECURSIVE TokenEnd(_, _)
TokenEnd(s, i) ==
  IF i <= Len(s) /\ s[i] \notin Whitespace THEN TokenEnd(s, i + 1) ELSE i

FirstToken(title) ==
  LET start == SkipWhitespace(title, 1)
  IN  IF start > Len(title) THEN Raise("IndexError")
      ELSE Return(SubSeq(title, start, TokenEnd(title, start) - 1))

RECURSIVE SumQuality(_, _)
SumQuality(qual, i) ==
  IF i > Len(qual) THEN 0
  ELSE (Ord(qual[i]) - PhredOffset) + SumQuality(qual, i + 1)

\* sum(ord(q) - 33 for q in qual) / len(qual) if qual else 0, kept as the exact
\* fraction num / den.
AvgQuality(qual) ==
  IF Len(qual) > 0 THEN [num |-> SumQuality(qual, 1), den |-> Len(qual)]
  ELSE [num |-> 0, den |-> 1]

FastqRecordInfo(record_id, rec) ==
  [ID |-> record_id,
   Title |-> rec.title,
   Sequence |-> rec.seq,
   Quality |-> rec.qual,
   Length |-> Len(rec.seq),
   GC_content |-> calculate_gc_content(rec.seq, "raw").value,
   Avg_quality |-> AvgQuality(rec.qual)]

\* Whether the loop keeps a record: "if wanted_ids and record_id not in
\* wanted_ids: continue".
KeepRecord(record_id, wanted) == ~(wanted # {} /\ record_id \notin wanted)

\* The for loop over the (title, seq, qual) triples of FastqGeneralIterator.
RECURSIVE FastqLoop(_, _, _, _)
FastqLoop(records, i, wanted, records_data) ==
  IF i > Len(records) THEN Return(records_data)
  ELSE LET record_id == FirstToken(records[i].title)
       IN  IF ~record_id.ok THEN Raise(record_id.exc)
           ELSE IF KeepRecord(record_id.value, wanted)
             THEN FastqLoop(records, i + 1, wanted,
                            Append(records_data,
                                   FastqRecordInfo(record_id.value, records[i])))
             ELSE FastqLoop(records, i + 1, wanted, records_data)

\* The loop over a text stream: FastqGeneralIterator raises ValueError where
\* the 4-line grammar is broken, after the records before that place.
FastqIterate(text, wanted) ==
  LET looped == FastqLoop(text.records, 1, wanted, <<>>)
  IN  IF ~looped.ok THEN looped
      ELSE IF text.lexer = "malformed" THEN Raise("ValueError")
      ELSE looped

process_fastq_stream(file_handle, wanted0) ==
  LET wanted == IF wanted0 = Nothing THEN {} ELSE wanted0.val
      text == ReadHandle(file_handle)
  IN  IF ~text.ok THEN text ELSE FastqIterate(text.value, wanted)

(***************************************************************************)
(* SeqIO.parse, process_fasta_stream, the loop of get_sequence_stats       *)
(***************************************************************************)
\* What the Biopython parsers do where Backend.py does not decide it: the
\* exception class raised on a broken FASTA/GenBank/EMBL grammar, and whether
\* the FASTQ parser raises on a title with no token or yields the record with
\* an empty id. A broken FASTQ grammar is the ValueError of the FASTQ lexer.
LibBehaviours ==
  [grammar : {"ValueError", "Exception"}, notoken : {"IndexError", "empty_id"}]

SeqRecordOf(rec) ==
  LET first_word == FirstToken(rec.title)
  IN  [id |-> IF first_word.ok THEN first_word.value ELSE <<>>,
       description |-> rec.title,
       seq |-> rec.seq]

\* SeqIO.parse(handle, file_format), iterated to its end.
SeqIOParse(file_handle, fmt, lib) ==
  LET text == ReadHandle(file_handle)
  IN  IF ~text.ok THEN text
      ELSE IF /\ fmt = "fastq"
              /\ lib.notoken = "IndexError"
              /\ \E i \in 1..Len(text.value.records) :
                    ~FirstToken(text.value.records[i].title).ok
        THEN Raise("IndexError")
      ELSE IF text.value.lexer = "malformed"
        THEN Raise(IF fmt = "fastq" THEN "ValueError" ELSE lib.grammar)
      ELSE Return([i \in 1..Len(text.value.records) |->
                     SeqRecordOf(text.value.records[i])])

FastaRecordInfo(rec) ==
  [ID |-> rec.id,
   Description |-> rec.description,
   Sequence |-> rec.seq,
   Length |-> Len(rec.seq),
   GC_content |-> calculate_gc_content(rec.seq, "raw").value,
   Last_base |-> IF Len(rec.seq) > 0 THEN <<rec.seq[Len(rec.seq)]>> ELSE <<>>,
   First_base |-> IF Len(rec.seq) > 0 THEN <<rec.seq[1]>> ELSE <<>>]

process_fasta_stream(file_handle, fmt, lib) ==
  LET parsed == SeqIOParse(file_handle, fmt, lib)
  IN  IF ~parsed.ok THEN parsed
      ELSE Return([i \in 1..Len(parsed.value) |-> FastaRecordInfo(parsed.value[i])])

\* sum(s["Length"] for s in sequences)
RECURSIVE SumLength(_, _)
SumLength(seqs, i) ==
  IF i > Len(seqs) THEN 0 ELSE seqs[i].Length + SumLength(seqs, i + 1)

\* StatsBody with the GC content taken in canonical mode.
StatsBody_gc_canonical(totals, rec) ==
  [total_length |-> totals.total_length + Len(rec.seq),
   total_gc |-> totals.total_gc + calculate_gc_content(rec.seq, "canonical").value,
   count |-> totals.count + 1]

\* The body of the loop of get_sequence_stats: one record added to the totals.
StatsBody(totals, rec) ==
  [total_length |-> totals.total_length + Len(rec.seq),
   total_gc |-> totals.total_gc + calculate_gc_content(rec.seq, "raw").value,
   count |-> totals.count + 1]

\* total_length = 0; total_gc = 0; count = 0
ZeroTotals == [total_length |-> 0, total_gc |-> 0, count |-> 0]

\* StatsLoop skipping the records whose sequence is empty.
RECURSIVE StatsLoop_skip_empty(_, _, _, _, _)
StatsLoop_skip_empty(records, i, total_length, total_gc, count) ==
  IF i > Len(records)
    THEN [total_length |-> total_length, total_gc |-> total_gc, count |-> count]
    ELSE IF Len(records[i].seq) = 0
      THEN StatsLoop_skip_empty(records, i + 1, total_length, total_gc, count)
      ELSE StatsLoop_skip_empty(records, i + 1,
                   total_length + Len(records[i].seq),
                   total_gc + calculate_gc_content(records[i].seq, "raw").value,
                   count + 1)

\* The single pass of get_sequence_stats over the records.
RECURSIVE StatsLoop(_, _, _, _, _)
StatsLoop(records, i, total_length, total_gc, count) ==
  IF i > Len(records)
    THEN [total_length |-> total_length, total_gc |-> total_gc, count |-> count]
    ELSE LET t == StatsBody([total_length |-> total_length, total_gc |-> total_gc,
                             count |-> count], records[i])
         IN  StatsLoop(records, i + 1, t.total_length, t.total_gc, t.count)

\* The statistics of the response; total_gc is a sum of hundredths.
StatsOfTotals(t) ==
  [total_sequences |-> t.count,
   total_bases |-> t.total_length,
   average_length |->
     IF t.count > 0 THEN Round2(t.total_length, t.count) ELSE 0,
   average_gc_content |->
     IF t.count > 0 THEN Round2(t.total_gc, 100 * t.count) ELSE 0]

StatsSummary(records) == StatsOfTotals(StatsLoop(records, 1, 0, 0, 0))

(***************************************************************************)
(* The filter_ids query string of filter_fastq                             *)
(***************************************************************************)
\* str.strip()
RECURSIVE LastNonSpace(_, _)
LastNonSpace(s, i) ==
  IF i >= 1 /\ s[i] \in Whitespace THEN LastNonSpace(s, i - 1) ELSE i

Strip(s) == SubSeq(s, SkipWhitespace(s, 1), LastNonSpace(s, Len(s)))

\* str.split(","): the pieces between the commas, empty pieces included.
RECURSIVE SplitComma(_, _, _)
SplitComma(s, i, piece) ==
  IF i > Len(s) THEN <<piece>>
  ELSE IF s[i] = "," THEN <<piece>> \o SplitComma(s, i + 1, <<>>)
  ELSE SplitComma(s, i + 1, Append(piece, s[i]))

\* wanted_ids = None; if filter_ids: wanted_ids = set(id.strip() for id in ...)
ParseFilterIds(fids) ==
  IF fids = Nothing \/ fids.val = <<>> THEN Nothing
  ELSE LET pieces == SplitComma(fids.val, 1, <<>>)
       IN  Some({Strip(pieces[i]) : i \in 1..Len(pieces)})

\* bool(wanted_ids)
Truthy(wanted) == wanted # Nothing /\ wanted.val # {}

(***************************************************************************)
(* The inputs of a request                                                 *)
(***************************************************************************)
Endpoints == {"process", "stats", "filter"}

\* The filenames of the requests.
RequestFiles ==
  { <<"a">> \o FastqExts[1],
    <<"A", ".", "F", "Q", ".", "G", "Z">>,
    <<"a">> \o FastqExts[2] \o Bzip2Exts[1],
    <<"a">> \o FastaExts[1],
    <<"S">> \o FastaExts[2] \o GzipExts[2],
    <<"a">> \o GenbankExts[1] \o Bzip2Exts[2],
    <<"a">> \o EmblExts[1],
    <<"n", ".", "t", "x", "t">>,
    <<"r">> \o GzipExts[1],
    <<"a">> \o FastaExts[1] \o Bzip2Exts[1] \o GzipExts[1],
    <<"a">> \o FastqExts[1] \o GzipExts[1] \o Bzip2Exts[1] }

\* The records of the uploads: [title, seq, qual] as the parsers yield them (a
\* title has no trailing whitespace, seq and qual are equally long).
RequestRecords ==
  { [title |-> <<"a">>, seq |-> <<"G", "c">>, qual |-> <<"!", "I">>],
    [title |-> <<"b", " ", "d">>, seq |-> <<"A", "N", "g">>, qual |-> <<"5", "#", "I">>],
    [title |-> <<>>, seq |-> <<"T">>, qual |-> <<"!">>],
    [title |-> <<"a">>, seq |-> <<>>, qual |-> <<>>] }

RecordStreams(pool, n) == UNION {[1..k -> pool] : k \in 0..n}

Uploads ==
  {[inflate |-> "ok", utf8 |-> TRUE, lexer |-> "ok", records |-> rs] :
     rs \in RecordStreams(RequestRecords, MaxRecs)}
  \cup
  {[inflate |-> "ok", utf8 |-> TRUE, lexer |-> "malformed", records |-> rs] :
     rs \in RecordStreams(RequestRecords, 1)}
  \cup
  {[inflate |-> "corrupt", utf8 |-> TRUE, lexer |-> "ok", records |-> <<>>],
   [inflate |-> "truncated", utf8 |-> TRUE, lexer |-> "ok", records |-> <<>>],
   [inflate |-> "ok", utf8 |-> FALSE, lexer |-> "ok", records |-> <<>>]}

FilterChars == {"a", "b", ",", " "}

FilterStrings ==
  {Nothing} \cup {Some(f) : f \in UNION {[1..k -> FilterChars] : k \in 0..MaxFilterLen}}

(***************************************************************************)
(* The endpoints: process_sequences_universal ("process"),                 *)
(* get_sequence_stats ("stats") and filter_fastq ("filter"), one request   *)
(* at a time, one action per step of the handler.                          *)
(***************************************************************************)
\* A request arrives: endpoint, filename, upload and, for the filter
\* endpoint, a filter string among `filters`.
InitRequest(filters) ==
  /\ pc = "detect"
  /\ endpoint \in Endpoints
  /\ filename \in RequestFiles
  /\ upload \in Uploads
  /\ filter_ids \in (IF endpoint = "filter" THEN filters ELSE {Nothing})
  /\ compression = None
  /\ file_format = None
  /\ content = Unbound
  /\ handle = Unbound
  /\ wanted_ids = Nothing
  /\ sequences = <<>>
  /\ stats = Unbound
  /\ record = Unbound
  /\ raised = Unbound
  /\ response = Unbound
  /\ call = None
  /\ ret = None

Init == InitRequest(FilterStrings)

\* An exception raised inside the try block reaches its except clauses.
Throw(exc, at) ==
  /\ pc' = "except"
  /\ raised' = [exc |-> exc, at |-> at]

\* Detect going on as FASTA when the format is not recognised.
Detect_defaults_to_fasta ==
  /\ pc = "detect"
  /\ compression' = detect_compression(filename)
  /\ LET fmt == detect_file_format(filename)
     IN  file_format' = IF fmt.ok THEN fmt.value ELSE "fasta"
  /\ pc' = IF endpoint = "filter" THEN "guard" ELSE "await_read"
  /\ UNCHANGED <<endpoint, filename, upload, filter_ids, content, handle,
                 wanted_ids, sequences, stats, record, raised, response, call, ret>>

\* compression = detect_compression(...); file_format = detect_file_format(...)
Detect ==
  /\ pc = "detect"
  /\ compression' = detect_compression(filename)
  /\ LET fmt == detect_file_format(filename)
     IN  IF fmt.ok
           THEN /\ pc' = IF endpoint = "filter" THEN "guard" ELSE "await_read"
                /\ file_format' = fmt.value
                /\ UNCHANGED raised
           ELSE /\ Throw(fmt.exc, "detect")
                /\ UNCHANGED file_format
  /\ UNCHANGED <<endpoint, filename, upload, filter_ids, content, handle,
                 wanted_ids, sequences, stats, record, response, call, ret>>

\* if file_format != 'fastq': raise HTTPException(400, ...), then the filter IDs.
GuardAndParseIds ==
  /\ pc = "guard"
  /\ IF file_format # "fastq"
       THEN /\ Throw("HTTPException", "guard")
            /\ UNCHANGED wanted_ids
       ELSE /\ pc' = "await_read"
            /\ wanted_ids' = ParseFilterIds(filter_ids)
            /\ UNCHANGED raised
  /\ UNCHANGED <<endpoint, filename, upload, filter_ids, compression, file_format,
                 content, handle, sequences, stats, record, response, call, ret>>

\* content = await file.read()
ReadUpload ==
  /\ pc = "await_read"
  /\ pc' = "get_handle"
  /\ content' = upload
  /\ UNCHANGED <<endpoint, filename, upload, filter_ids, compression, file_format,
                 handle, wanted_ids, sequences, stats, record, raised, response, call, ret>>

\* handle = get_text_handle(content, compression)
GetHandle ==
  /\ pc = "get_handle"
  /\ LET h == get_text_handle(content, compression)
     IN  IF h.ok
           THEN /\ pc' = "parse"
                /\ handle' = h.value
                /\ UNCHANGED raised
           ELSE /\ Throw(h.exc, "get_handle")
                /\ UNCHANGED handle
  /\ UNCHANGED <<endpoint, filename, upload, filter_ids, compression, file_format,
                 content, wanted_ids, sequences, stats, record, response, call, ret>>

\* The outcome of a parsing step: its value is bound, or its exception thrown.
Parsed(result) ==
  IF result.ok
    THEN /\ pc' = "respond"
         /\ UNCHANGED raised
    ELSE Throw(result.exc, "parse")

ParseProcess ==
  /\ pc = "parse"
  /\ endpoint = "process"
  /\ \E lib \in LibBehaviours :
       \E result \in {IF file_format = "fastq"
                        THEN process_fastq_stream(handle, Nothing)
                        ELSE process_fasta_stream(handle, file_format, lib)} :
         /\ Parsed(result)
         /\ sequences' = IF result.ok THEN result.value ELSE sequences
  /\ UNCHANGED <<endpoint, filename, upload, filter_ids, compression, file_format,
                 content, handle, wanted_ids, stats, record, response, call, ret>>

\* total_length = 0; total_gc = 0; count = 0, before the loop.
ParseStats ==
  /\ pc = "parse"
  /\ endpoint = "stats"
  /\ pc' = "next_record"
  /\ stats' = ZeroTotals
  /\ UNCHANGED <<endpoint, filename, upload, filter_ids, compression, file_format,
                 content, handle, wanted_ids, sequences, record, raised, response,
                 call, ret>>

\* What SeqIO.parse(handle, file_format) does when asked for the record after
\* the `done` records already yielded: it yields a record, ends, or raises.
SeqIONext(file_handle, fmt, lib, done) ==
  LET text == ReadHandle(file_handle)
      rec == text.value.records[done + 1]
  IN  IF ~text.ok THEN [kind |-> "raise", exc |-> text.exc]
      ELSE IF done < Len(text.value.records)
        THEN IF /\ fmt = "fastq"
                /\ lib.notoken = "IndexError"
                /\ ~FirstToken(rec.title).ok
               THEN [kind |-> "raise", exc |-> "IndexError"]
               ELSE [kind |-> "yield", record |-> SeqRecordOf(rec)]
      ELSE IF text.value.lexer = "malformed"
        THEN [kind |-> "raise",
              exc |-> IF fmt = "fastq" THEN "ValueError" ELSE lib.grammar]
      ELSE [kind |-> "stop"]

\* for record in SeqIO.parse(handle, file_format): the next record is parsed.
StatsNextRecord ==
  /\ pc = "next_record"
  /\ \E lib \in LibBehaviours :
       \E step \in {SeqIONext(handle, file_format, lib, stats.count)} :
           CASE step.kind = "yield" ->
                  /\ pc' = "compute"
                  /\ record' = step.record
                  /\ UNCHANGED raised
             [] step.kind = "stop" ->
                  /\ pc' = "respond"
                  /\ UNCHANGED <<record, raised>>
             [] step.kind = "raise" ->
                  /\ Throw(step.exc, "parse")
                  /\ UNCHANGED record
  /\ UNCHANGED <<endpoint, filename, upload, filter_ids, compression, file_format,
                 content, handle, wanted_ids, sequences, stats, response, call, ret>>

\* The loop body: total_length += len(record); total_gc += ...; count += 1
StatsAccumulate ==
  /\ pc = "compute"
  /\ pc' = "next_record"
  /\ stats' = StatsBody(stats, record)
  /\ UNCHANGED <<endpoint, filename, upload, filter_ids, compression, file_format,
                 content, handle, wanted_ids, sequences, record, raised, response,
                 call, ret>>

ParseFilter ==
  /\ pc = "parse"
  /\ endpoint = "filter"
  /\ \E result \in {process_fastq_stream(handle, wanted_ids)} :
       /\ Parsed(result)
       /\ sequences' = IF result.ok THEN result.value ELSE sequences
  /\ UNCHANGED <<endpoint, filename, upload, filter_ids, compression, file_format,
                 content, handle, wanted_ids, stats, record, response, call, ret>>

Respond200(body) ==
  /\ pc' = "done"
  /\ response' = [status |-> 200, body |-> body]
  /\ UNCHANGED <<endpoint, filename, upload, filter_ids, compression, file_format,
                 content, handle, wanted_ids, sequences, stats, record, raised, call, ret>>

RespondProcess ==
  /\ pc = "respond"
  /\ endpoint = "process"
  /\ Respond200([filename |-> filename,
                 format |-> file_format,
                 compression |-> compression,
                 total_sequences |-> Len(sequences),
                 total_bases |-> SumLength(sequences, 1),
                 sequences |-> sequences])

RespondStats ==
  /\ pc = "respond"
  /\ endpoint = "stats"
  /\ Respond200([filename |-> filename,
                 format |-> file_format,
                 compression |-> compression,
                 total_sequences |-> StatsOfTotals(stats).total_sequences,
                 total_bases |-> StatsOfTotals(stats).total_bases,
                 average_length |-> StatsOfTotals(stats).average_length,
                 average_gc_content |-> StatsOfTotals(stats).average_gc_content])

RespondFilter ==
  /\ pc = "respond"
  /\ endpoint = "filter"
  /\ Respond200([filename |-> filename,
                 compression |-> compression,
                 total_sequences |-> Len(sequences),
                 filtered |-> Truthy(wanted_ids),
                 filter_count |->
                   IF Truthy(wanted_ids) THEN Cardinality(wanted_ids.val) ELSE 0,
                 sequences |-> sequences])

\* isinstance(e, ValueError): UnicodeDecodeError is a subclass of ValueError.
IsValueError(exc) == exc \in {"ValueError", "UnicodeDecodeError"}

\* The status of the HTTPException that the except clauses raise.
StatusOf(exc) == IF IsValueError(exc) THEN 400 ELSE 500

\* except ValueError as e: raise HTTPException(400, str(e))
\* except Exception as e: raise HTTPException(500, ...)
Except ==
  /\ pc = "except"
  /\ pc' = "done"
  /\ response' = [status |-> StatusOf(raised.exc), body |-> [detail |-> raised.exc]]
  /\ UNCHANGED <<endpoint, filename, upload, filter_ids, compression, file_format,
                 content, handle, wanted_ids, sequences, stats, record, raised, call, ret>>

Next ==
  \/ Detect
  \/ GuardAndParseIds
  \/ ReadUpload
  \/ GetHandle
  \/ ParseProcess
  \/ ParseStats
  \/ StatsNextRecord
  \/ StatsAccumulate
  \/ ParseFilter
  \/ RespondProcess
  \/ RespondStats
  \/ RespondFilter
  \/ Except

Spec == Init /\ [][Next]_vars

(***************************************************************************)
(* The same requests under the scheduling of the event loop: a handler     *)
(* that can take a step takes it, and the awaited read of the upload       *)
(* completes.  The filter string is one of three.                          *)
(***************************************************************************)
OrderFilterStrings == {Nothing, Some(<<>>), Some(<<"a">>)}

InitOrder == InitRequest(OrderFilterStrings)

\* Every step changes pc.
SpecOrder == InitOrder /\ [][Next]_vars /\ WF_pc(Next)

(***************************************************************************)
(* The same file sent to the full-processing endpoint and then to the      *)
(* stats-only endpoint: the first response is kept in ret.                 *)
(***************************************************************************)
InitPair ==
  /\ pc = "detect"
  /\ endpoint = "process"
  /\ filename \in RequestFiles
  /\ upload \in Uploads
  /\ filter_ids = Nothing
  /\ compression = None
  /\ file_format = None
  /\ content = Unbound
  /\ handle = Unbound
  /\ wanted_ids = Nothing
  /\ sequences = <<>>
  /\ stats = Unbound
  /\ record = Unbound
  /\ raised = Unbound
  /\ response = Unbound
  /\ call = None
  /\ ret = Unbound

\* The client sends the same filename and bytes to get_sequence_stats: a new
\* invocation, whose locals are unbound.
Resubmit ==
  /\ pc = "done"
  /\ endpoint = "process"
  /\ pc' = "detect"
  /\ endpoint' = "stats"
  /\ ret' = response
  /\ compression' = None
  /\ file_format' = None
  /\ content' = Unbound
  /\ handle' = Unbound
  /\ sequences' = <<>>
  /\ stats' = Unbound
  /\ record' = Unbound
  /\ raised' = Unbound
  /\ response' = Unbound
  /\ UNCHANGED <<filename, upload, filter_ids, wanted_ids, call>>

NextPair ==
  \/ Detect
  \/ ReadUpload
  \/ GetHandle
  \/ ParseProcess
  \/ RespondProcess
  \/ Resubmit
  \/ ParseStats
  \/ StatsNextRecord
  \/ StatsAccumulate
  \/ RespondStats
  \/ Except

SpecPair == InitPair /\ [][NextPair]_vars

(***************************************************************************)
(* Calls of the pure functions: the arguments are drawn in the initial     *)
(* state, the action applies the function, no request is in progress.      *)
(***************************************************************************)
NoRequest ==
  /\ endpoint = None
  /\ filename = None
  /\ upload = None
  /\ filter_ids = Nothing
  /\ compression = None
  /\ file_format = None
  /\ content = None
  /\ handle = None
  /\ wanted_ids = Nothing
  /\ sequences = None
  /\ stats = None
  /\ record = None
  /\ raised = None
  /\ response = None

Returned(fn) == pc = "returned" /\ call.fn = fn

Residues == {"A", "C", "G", "T", "a", "c", "g", "t", "N"}

ResidueSeqs == UNION {[1..k -> Residues] : k \in 0..MaxLen}

\* "other" stands for every mode that is neither 'raw' nor 'canonical'.
Modes == {"raw", "canonical", "other"}

InitGC ==
  /\ pc = "call"
  /\ call \in [fn : {"calculate_gc_content"}, seq : ResidueSeqs, mode : Modes]
  /\ ret = None
  /\ NoRequest

CallGC ==
  /\ pc = "call"
  /\ call.fn = "calculate_gc_content"
  /\ ret' = calculate_gc_content(call.seq, call.mode)
  /\ pc' = "returned"
  /\ UNCHANGED <<endpoint, filename, upload, filter_ids, compression, file_format,
                 content, handle, wanted_ids, sequences, stats, record, raised, response,
                 call>>

NextGC == CallGC

SpecGC == InitGC /\ [][NextGC]_vars

GCBases == {"G", "C", "g", "c"}

CanonicalBases == {"A", "T", "G", "C", "a", "t", "g", "c"}

CountIn(S, chars) == Cardinality({i \in 1..Len(S) : S[i] \in chars})

Abs(x) == IF x < 0 THEN -x ELSE x

\* Whether v hundredths is num / den rounded to 2 decimals: no hundredth is
\* nearer to num / den than v.
IsRounded2(v, num, den) == 2 * Abs(v * den - 100 * num) <= den

\* C1: for every residue sequence S and every mode in {raw, canonical},
\* calculate_gc_content(S, mode) is 100 * (number of G/C residues, either case) /
\* denominator rounded to 2 decimals, the denominator being len(S) in raw mode
\* and the number of A/T/G/C residues in canonical mode; it is 0.0 when the
\* denominator is 0, and always within [0, 100].
C1_GcContent ==
  (Returned("calculate_gc_content") /\ call.mode \in {"raw", "canonical"}) =>
    LET gc == CountIn(call.seq, GCBases)
        denominator == IF call.mode = "raw" THEN Len(call.seq)
                       ELSE CountIn(call.seq, CanonicalBases)
    IN  /\ ret.ok
        /\ denominator = 0 => ret.value = 0
        /\ denominator > 0 => IsRounded2(ret.value, 100 * gc, denominator)
        /\ ret.value >= 0
        /\ ret.value <= 10000

\* A canonical-mode call on a mixed-case sequence with an ambiguous base: one
\* of two canonical bases is G/C, so the result is 50.0 (raw mode gives 33.33).
C1_Witness ==
  /\ Returned("calculate_gc_content")
  /\ call.mode = "canonical"
  /\ call.seq = <<"g", "N", "a">>
  /\ ret = Return(5000)

\* C2: for every sequence S whose residues are all A/T/G/C in either case (the
\* empty sequence included), raw mode and canonical mode give the same result.
C2_RawEqualsCanonical ==
  (/\ Returned("calculate_gc_content")
   /\ call.mode \in {"raw", "canonical"}
   /\ \A i \in 1..Len(call.seq) : call.seq[i] \in CanonicalBases) =>
    ret = calculate_gc_content(call.seq,
                               IF call.mode = "raw" THEN "canonical" ELSE "raw")

\* A raw-mode call on a mixed-case A/T/G/C sequence whose result is 66.67.
C2_Witness ==
  /\ Returned("calculate_gc_content")
  /\ call.mode = "raw"
  /\ call.seq = <<"g", "A", "c">>
  /\ ret = Return(6667)

(***************************************************************************)
(* Calls of detect_compression and detect_file_format on one filename      *)
(***************************************************************************)
\* Extensions in other spellings, and one that is no format.
OtherExts ==
  { <<".", "F", "A", "S", "T", "A">>, <<".", "G", "Z">>, <<".", "F", "q">>,
    <<".", "t", "x", "t">> }

Range(f) == {f[i] : i \in DOMAIN f}

ExtPool ==
  Range(CompressionExts) \cup Range(FastaExts) \cup Range(FastqExts)
    \cup Range(GenbankExts) \cup Range(EmblExts) \cup OtherExts

Stems == {<<"a">>, <<"S">>}

RECURSIVE Concat(_, _)
Concat(parts, i) == IF i > Len(parts) THEN <<>> ELSE parts[i] \o Concat(parts, i + 1)

Filenames ==
  {stem \o Concat(exts, 1) :
     stem \in Stems, exts \in UNION {[1..k -> ExtPool] : k \in 0..MaxExts}}

InitDetect ==
  /\ pc = "call"
  /\ call \in [fn : {"detect"}, filename : Filenames]
  /\ ret = None
  /\ NoRequest

CallDetect ==
  /\ pc = "call"
  /\ call.fn = "detect"
  /\ ret' = [compression |-> detect_compression(call.filename),
             format |-> detect_file_format(call.filename)]
  /\ pc' = "returned"
  /\ UNCHANGED <<endpoint, filename, upload, filter_ids, compression, file_format,
                 content, handle, wanted_ids, sequences, stats, record, raised, response,
                 call>>

NextDetect == CallDetect

SpecDetect == InitDetect /\ [][NextDetect]_vars

\* The stated detector: the compression tag of a lower-cased name, the name
\* with exactly that one compression suffix removed, and the format of a suffix.
StatedCompression(name) ==
  IF \E e \in {<<".", "g", "z">>, <<".", "g", "z", "i", "p">>} : EndsWith(name, e)
    THEN "gzip"
  ELSE IF \E e \in {<<".", "b", "z", "2">>, <<".", "b", "z", "i", "p", "2">>} :
            EndsWith(name, e)
    THEN "bzip2"
  ELSE "none"

StatedStripped(name) ==
  IF \E i \in 1..Len(CompressionExts) : EndsWith(name, CompressionExts[i])
    THEN DropSuffix(name,
           CompressionExts[CHOOSE i \in 1..Len(CompressionExts) :
                             EndsWith(name, CompressionExts[i])])
    ELSE name

StatedFormats ==
  { <<"fasta", <<".", "f", "a">>>>, <<"fasta", <<".", "f", "a", "s", "t", "a">>>>,
    <<"fasta", <<".", "f", "n", "a">>>>,
    <<"fastq", <<".", "f", "q">>>>, <<"fastq", <<".", "f", "a", "s", "t", "q">>>>,
    <<"genbank", <<".", "g", "b">>>>, <<"genbank", <<".", "g", "b", "k">>>>,
    <<"genbank", <<".", "g", "e", "n", "b", "a", "n", "k">>>>,
    <<"embl", <<".", "e", "m", "b", "l">>>> }

\* The formats whose suffix the name, stripped of one compression suffix, ends
\* with (no two stated suffixes end one name, so at most one format).
StatedFormat(fname) ==
  {p[1] : p \in {q \in StatedFormats : EndsWith(StatedStripped(Lower(fname)), q[2])}}

\* C3: for every filename the detector is case-insensitive and the format tag
\* is decided by the suffix left after removing exactly the one compression
\* suffix that decided the compression tag; a name with no format suffix
\* there is rejected.
C3_SingleSuffixStripped ==
  Returned("detect") =>
    /\ ret.compression = StatedCompression(Lower(call.filename))
    /\ ret.format.ok <=> StatedFormat(call.filename) # {}
    /\ ret.format.ok => ret.format.value \in StatedFormat(call.filename)

(***************************************************************************)
(* Claims about the requests (specification Spec)                          *)
(***************************************************************************)
\* C4: a request whose filename, stripped of its one compression suffix, ends
\* with no format suffix fails in detect_file_format: it never gets past the
\* detection (the upload is not read, no record is parsed) and ends in a
\* client-error response, on each of the three endpoints.
C4_UnsupportedIsClientError ==
  StatedFormat(filename) = {} =>
    /\ pc \in {"detect", "except", "done"}
    /\ pc = "except" => (raised.exc = "ValueError" /\ raised.at = "detect")
    /\ pc = "done" => (response.status >= 400 /\ response.status < 500)

\* The filter string holds an identifier: a character that is neither a comma
\* nor whitespace.
HasIdentifier(fids) ==
  /\ fids # Nothing
  /\ \E i \in 1..Len(fids.val) : fids.val[i] \notin ({","} \cup Whitespace)

\* The identifiers of a filter string: its comma-separated pieces, trimmed.
StatedWanted(fids) ==
  {Strip(piece) : piece \in Range(SplitComma(fids.val, 1, <<>>))}

\* C6: on the FASTQ filter endpoint the wanted-ID set is the set of trimmed
\* comma-separated tokens of filter_ids and only the records with a wanted
\* identifier are returned; an empty filter string, and any filter string
\* holding no identifier after trimming, keeps every record with
\* filtered == false and filter_count == 0.
C6_FilterIds ==
  (pc = "done" /\ endpoint = "filter" /\ response.status = 200) =>
    IF HasIdentifier(filter_ids)
      THEN /\ response.body.filtered
           /\ response.body.filter_count = Cardinality(StatedWanted(filter_ids))
           /\ \A i \in 1..Len(response.body.sequences) :
                response.body.sequences[i].ID \in StatedWanted(filter_ids)
      ELSE /\ ~response.body.filtered
           /\ response.body.filter_count = 0
           /\ response.body.total_sequences = Len(upload.records)

\* The error kind of a raised exception: where and what the failure was.
ErrorKind ==
  IF raised.at = "detect" THEN "UnsupportedFormat"
  ELSE IF raised.at = "guard" THEN "NotFastq"
  ELSE IF raised.exc = "UnicodeDecodeError" THEN "DecodeError"
  ELSE IF raised.exc \in {"OSError", "EOFError"} THEN "DecompressionError"
  ELSE IF raised.exc = "IndexError" THEN "Unexpected"
  ELSE IF file_format = "fastq" THEN "MalformedFastqRecord"
  ELSE "ProcessingFailure"

ClientErrorKinds == {"UnsupportedFormat", "InvalidMode", "MalformedFastqRecord"}

\* C9: a request that fails ends in one error response whose class depends
\* only on the error kind: 400 for UnsupportedFormat, InvalidMode and
\* MalformedFastqRecord, 500 for every other failure (DecodeError,
\* DecompressionError, ProcessingFailure, any unexpected exception); a failed
\* request never answers 200.
C9_ErrorClassByKind ==
  (pc = "done" /\ response.status # 200) =>
    response.status = IF ErrorKind \in ClientErrorKinds THEN 400 ELSE 500

\* An upload that yields an empty record stream.
EmptyStream(u) ==
  u.inflate = "ok" /\ u.utf8 /\ u.lexer = "ok" /\ u.records = <<>>

\* C10: with a recognized format extension (with or without a compression
\* suffix) and an upload that yields an empty record stream, full processing
\* and stats-only raise nothing and answer 200 with total_sequences == 0 and
\* total_bases == 0 (stats-only also average_length == 0 and
\* average_gc_content == 0).
C10_EmptyUpload ==
  (/\ endpoint \in {"process", "stats"}
   /\ StatedFormat(filename) # {}
   /\ EmptyStream(upload)) =>
    /\ pc # "except"
    /\ pc = "done" =>
         /\ response.status = 200
         /\ response.body.total_sequences = 0
         /\ response.body.total_bases = 0
         /\ endpoint = "stats" =>
              /\ response.body.average_length = 0
              /\ response.body.average_gc_content = 0

\* The stats-only endpoint has answered an empty bzip2-compressed GenBank upload.
C10_Witness ==
  /\ pc = "done"
  /\ endpoint = "stats"
  /\ compression = "bzip2"
  /\ file_format = "genbank"
  /\ EmptyStream(upload)
  /\ response.status = 200
  /\ response.body.total_sequences = 0

(***************************************************************************)
(* Calls of process_fastq_stream on a record stream and a wanted-ID set    *)
(***************************************************************************)
FastqTitles == {<<>>, <<"a">>, <<"b">>, <<"a", " ", "d">>, <<" ", "b">>}

FastqReads ==
  { [seq |-> <<>>, qual |-> <<>>],
    [seq |-> <<"G", "c">>, qual |-> <<"!", "I">>],
    [seq |-> <<"A", "N", "g">>, qual |-> <<"5", "#", "I">>] }

FastqRecords ==
  {[title |-> t, seq |-> r.seq, qual |-> r.qual] : t \in FastqTitles, r \in FastqReads}

WantedSets == {Nothing} \cup {Some(w) : w \in SUBSET {<<"a">>, <<"b">>, <<>>}}

\* io.StringIO over a well-formed text holding the records.
StringIOOf(records) ==
  [kind |-> "StringIO",
   content |-> [inflate |-> "ok", utf8 |-> TRUE, lexer |-> "ok", records |-> records]]

InitFastq ==
  /\ pc = "call"
  /\ call \in [fn : {"process_fastq_stream"},
               records : RecordStreams(FastqRecords, MaxRecs),
               wanted : WantedSets]
  /\ ret = None
  /\ NoRequest

CallFastq ==
  /\ pc = "call"
  /\ call.fn = "process_fastq_stream"
  /\ ret' = process_fastq_stream(StringIOOf(call.records), call.wanted)
  /\ pc' = "returned"
  /\ UNCHANGED <<endpoint, filename, upload, filter_ids, compression, file_format,
                 content, handle, wanted_ids, sequences, stats, record, raised, response,
                 call>>

NextFastq == CallFastq

SpecFastq == InitFastq /\ [][NextFastq]_vars

\* The identifier of a title, as a set: its first whitespace-delimited token
\* (the run of non-whitespace characters after the leading whitespace), none
\* when the title holds no token.
StatedIds(title) ==
  {SubSeq(title, p[1], p[2]) :
     p \in {q \in (1..Len(title)) \X (1..Len(title)) :
              /\ q[1] <= q[2]
              /\ \A m \in 1..(q[1] - 1) : title[m] \in Whitespace
              /\ \A m \in q[1]..q[2] : title[m] \notin Whitespace
              /\ q[2] = Len(title) \/ title[q[2] + 1] \in Whitespace}}

\* Whether a wanted-ID set is supplied and non-empty.
Filtering(wanted) == wanted # Nothing /\ wanted.val # {}

\* Whether the stated filter keeps a record.
StatedKept(rec, wanted) ==
  Filtering(wanted) => StatedIds(rec.title) \cap wanted.val # {}

\* C5: with a supplied, non-empty wanted-ID set W, process_fastq_stream returns
\* exactly the records whose identifier is in W, in input order (so the
\* skipped ones are not counted); with W absent or empty it returns every
\* record of the stream.
C5_FilterSubsequence ==
  Returned("process_fastq_stream") =>
    /\ ret.ok
    /\ [i \in 1..Len(ret.value) |->
          [title |-> ret.value[i].Title,
           seq |-> ret.value[i].Sequence,
           qual |-> ret.value[i].Quality]]
         = SelectSeq(call.records, LAMBDA rec : StatedKept(rec, call.wanted))

RECURSIVE SeqSum(_)
SeqSum(ints) == IF ints = <<>> THEN 0 ELSE Head(ints) + SeqSum(Tail(ints))

\* C7: for every title the lexer can yield (an empty one included) the call
\* raises nothing, and every retained record carries ID = the first
\* whitespace-delimited token of the title, Length = len(sequence),
\* GC_content = the raw-mode GC of the sequence, and Avg_quality = the mean of
\* (code point - 33) over the quality characters, 0 for an empty quality.
C7_RecordFields ==
  Returned("process_fastq_stream") =>
    /\ ret.ok
    /\ \A i \in 1..Len(ret.value) :
         LET info == ret.value[i]
             phred == [k \in 1..Len(info.Quality) |-> Ord(info.Quality[k]) - 33]
         IN  /\ info.ID \in StatedIds(info.Title)
             /\ info.Length = Len(info.Sequence)
             /\ IF Len(info.Sequence) = 0 THEN info.GC_content = 0
                ELSE IsRounded2(info.GC_content,
                                100 * CountIn(info.Sequence, GCBases),
                                Len(info.Sequence))
             /\ IF Len(info.Quality) = 0 THEN info.Avg_quality.num = 0
                ELSE info.Avg_quality.num * Len(info.Quality)
                       = SeqSum(phred) * info.Avg_quality.den

(***************************************************************************)
(* Calls of the statistics loop of get_sequence_stats on a record stream   *)
(***************************************************************************)
Rep(c, n) == [i \in 1..n |-> c]

\* Residue sequences of lengths 0..3, and of lengths 10, 20 and 30 with a GC
\* content of 0, 50 and 100 percent.
StatsSeqs ==
  { <<>>, <<"G">>, <<"a", "t">>, <<"A", "N", "g">>,
    Rep("A", 10), Rep("G", 10) \o Rep("t", 10), Rep("c", 30) }

StatsRecords == {[id |-> <<"r">>, description |-> <<"r">>, seq |-> q] : q \in StatsSeqs}

InitStats ==
  /\ pc = "call"
  /\ call \in [fn : {"stats"}, records : RecordStreams(StatsRecords, MaxStatsRecs)]
  /\ ret = None
  /\ NoRequest

CallStats ==
  /\ pc = "call"
  /\ call.fn = "stats"
  /\ ret' = StatsSummary(call.records)
  /\ pc' = "returned"
  /\ UNCHANGED <<endpoint, filename, upload, filter_ids, compression, file_format,
                 content, handle, wanted_ids, sequences, stats, record, raised, response,
                 call>>

NextStats == CallStats

SpecStats == InitStats /\ [][NextStats]_vars

\* The per-record lengths and raw GC% values (in hundredths) of the stream.
StatedLengths == [i \in 1..Len(call.records) |-> Len(call.records[i].seq)]

StatedGcs ==
  [i \in 1..Len(call.records) |->
     IF Len(call.records[i].seq) = 0 THEN 0
     ELSE Round2(100 * CountIn(call.records[i].seq, GCBases),
                 Len(call.records[i].seq))]

\* C8: over every finite sequence of records the stats-only pass gives
\* total_sequences = the record count, total_bases = the sum of the lengths,
\* average_length = total_bases / total_sequences rounded to 2 decimals,
\* average_gc_content = the mean of the per-record raw GC% rounded to 2
\* decimals, both averages 0 for no record; lengths [10,20,30] with GC%
\* [0,50,100] give 20.0 and 50.0.
C8_StatsSummary ==
  Returned("stats") =>
    /\ ret.total_sequences = Len(call.records)
    /\ ret.total_bases = SeqSum(StatedLengths)
    /\ IF Len(call.records) = 0
         THEN ret.average_length = 0 /\ ret.average_gc_content = 0
         ELSE /\ IsRounded2(ret.average_length, SeqSum(StatedLengths),
                            Len(call.records))
              /\ IsRounded2(ret.average_gc_content, SeqSum(StatedGcs),
                            100 * Len(call.records))
    /\ (StatedLengths = <<10, 20, 30>> /\ StatedGcs = <<0, 5000, 10000>>) =>
         (ret.average_length = 2000 /\ ret.average_gc_content = 5000)

\* The pass has folded three records of lengths 10, 20, 30 and GC% 0, 50, 100.
C8_Witness ==
  /\ Returned("stats")
  /\ StatedLengths = <<10, 20, 30>>
  /\ StatedGcs = <<0, 5000, 10000>>
  /\ ret.total_sequences = 3
  /\ ret.total_bases = 60
  /\ ret.average_length = 2000
  /\ ret.average_gc_content = 5000

(***************************************************************************)
(* C11: the order of the steps of one request                              *)
(***************************************************************************)
\* The step a request is about to take, numbered as the stated chain
\* detect -> read -> decompress/decode -> parse -> compute stats -> respond.
StepRank(p) ==
  CASE p = "detect" -> 1
    [] p = "guard" -> 2
    [] p = "await_read" -> 3
    [] p = "get_handle" -> 4
    [] p = "parse" -> 5
    [] p = "next_record" -> 5
    [] p = "compute" -> 6
    [] p = "respond" -> 7
    [] p = "except" -> 8
    [] p = "done" -> 9

\* The same with parsing and computing taken as one pass over the records.
PhaseRank(p) == IF p = "compute" THEN StepRank("next_record") ELSE StepRank(p)

\* C11 as stated: the steps of a request occur in the fixed order detect, read,
\* decompress/decode, parse, compute stats, respond, no step starting before
\* the previous one has completed: once the statistics are being computed the
\* request never goes back to parsing.
C11_StrictOrder == [][StepRank(pc') >= StepRank(pc)]_pc

\* The order the steps do keep: the phases never go back, and inside the pass
\* of the stats-only endpoint a record is parsed, then added to the totals,
\* then the next one is parsed.
OrderedStep ==
  /\ PhaseRank(pc') >= PhaseRank(pc)
  /\ pc = "compute" => pc' = "next_record"
  /\ pc = "next_record" => pc' \in {"compute", "respond", "except"}
  /\ pc = "except" => pc' = "done"
  /\ pc' = "done" => pc \in {"respond", "except"}

\* A failed detection keeps the request away from the upload; nothing is
\* answered before the end, and the answer is one success or one error.
FailureStops ==
  /\ ~detect_file_format(filename).ok => pc \in {"detect", "except", "done"}
  /\ pc \in {"detect", "guard", "await_read"} => content = Unbound
  /\ IF pc = "done" THEN response.status \in {200, 400, 500} ELSE response = Unbound

\* C11: every request goes through detect, read of the upload, decode, one pass
\* that parses the records and computes their statistics record by record, and
\* the response, in this order; a failure skips every later step (a failed
\* detection means the upload is never read); every request ends with exactly
\* one success or error response.
C11_StepOrder ==
  /\ [][OrderedStep]_pc
  /\ []FailureStops
  /\ <>(pc = "done")

\* A stats-only request answered after two records: the second record was
\* parsed after the first had been added to the totals.
C11_Witness ==
  /\ endpoint = "stats"
  /\ pc = "done"
  /\ response.status = 200
  /\ stats.count = 2

(***************************************************************************)
(* C12: the FASTQ guard of the filter endpoint                             *)
(***************************************************************************)
\* C12: a filter request whose detected format is fasta, genbank or embl is
\* rejected by the guard, the status reaching the caller is 400, and the
\* upload is never read.
C12_GuardRejects400 ==
  (/\ endpoint = "filter"
   /\ pc = "done"
   /\ file_format \in {"fasta", "genbank", "embl"})
  => /\ raised.at = "guard"
     /\ response.status = 400
     /\ content = Unbound

(***************************************************************************)
(* C13: the stats-only response against the full-processing response       *)
(***************************************************************************)
\* The Length and GC_content fields of a record list.
FieldLengths(seqs) == [i \in 1..Len(seqs) |-> seqs[i].Length]

FieldGcs(seqs) == [i \in 1..Len(seqs) |-> seqs[i].GC_content]

\* C13: for the same filename and bytes, when both requests succeed, the
\* stats-only response and the full-processing response agree on format,
\* compression, total_sequences and total_bases, and the stats-only averages
\* are the means, rounded to 2 decimals, of the Length and GC_content fields
\* of the full-processing record list (0 for an empty list), for every format.
C13_StatsAgreeWithProcess ==
  (/\ endpoint = "stats"
   /\ pc = "done"
   /\ ret.status = 200
   /\ response.status = 200)
  => LET full == ret.body
         summary == response.body
         n == Len(full.sequences)
     IN  /\ summary.format = full.format
         /\ summary.compression = full.compression
         /\ summary.total_sequences = full.total_sequences
         /\ summary.total_bases = full.total_bases
         /\ IF n = 0
              THEN summary.average_length = 0 /\ summary.average_gc_content = 0
              ELSE /\ IsRounded2(summary.average_length,
                                 SeqSum(FieldLengths(full.sequences)), n)
                   /\ IsRounded2(summary.average_gc_content,
                                 SeqSum(FieldGcs(full.sequences)), 100 * n)

\* Both requests succeeded on a FASTQ upload of two records, one of them with
\* an N among its bases.
C13_Witness ==
  /\ endpoint = "stats"
  /\ pc = "done"
  /\ file_format = "fastq"
  /\ ret.status = 200
  /\ response.status = 200
  /\ response.body.total_sequences = 2
  /\ response.body.total_bases = 5

====
